---- MODULE Spec2Model ----
(***************************************************************************)
(* project-to-xml: the exclusion matcher (project_to_xml and the older     *)
(* project_analyzer variant) and one ProjectAnalyzer instance running      *)
(* create_project_xml over a file system.                                  *)
(*                                                                         *)
(* Text (file names, patterns, file contents) is a sequence of one-        *)
(* character strings, so that suffix tests, sorting and the CDATA          *)
(* terminator search are computed on characters as the code does.          *)
(***************************************************************************)
EXTENDS Integers, Sequences, FiniteSets, TLC

VARIABLES
    m_config,     \* matcher: the two-tier configuration
    m_legacy,     \* matcher: the single-list configuration
    m_path,       \* matcher: the path given to should_exclude
    m_called,     \* matcher: should_exclude has been called on m_path
    m_result,     \* matcher: what the calls returned
    config,       \* self.config of the analyzer
    config0,      \* history: self.config as the constructor left it
    fs,           \* the file system
    fs0,          \* history: the file system when the current run was called
    pc,           \* where the current run of create_project_xml stands
    runs,         \* calls of create_project_xml made so far
    folder_path,  \* create_project_xml: folder_path after abspath
    output_arg,   \* history: the output_file argument of the call
    output_file,  \* create_project_xml: output_file once settled
    structure,    \* the children of the structure element
    contents,     \* the children of the contents element
    cdata,        \* the CDATA data of the content elements populated so far
    reads,        \* history: what open and read gave for each of them
    raised,       \* the exception that left create_project_xml, or "none"
    returned      \* the value create_project_xml returned

mvars == <<m_config, m_legacy, m_path, m_called, m_result>>

vars == <<m_config, m_legacy, m_path, m_called, m_result, config, config0, fs,
          fs0, pc, runs, folder_path, output_arg, output_file, structure,
          contents, cdata, reads, raised, returned>>

-----------------------------------------------------------------------------
(* Bounds *)

\* longest base name given to the matchers
MaxNameLen == 3

\* calls of create_project_xml on the one analyzer
MaxRuns == 2

-----------------------------------------------------------------------------
(* Text helpers: Python str operations on character sequences *)

\* str.startswith('*')
StartsWithStar(pattern) == Len(pattern) >= 1 /\ pattern[1] = "*"

\* pattern[1:]
DropFirst(pattern) == IF Len(pattern) = 0 THEN <<>> ELSE Tail(pattern)

\* filename.endswith(suffix)
EndsWith(filename, suffix) ==
    /\ Len(suffix) <= Len(filename)
    /\ SubSeq(filename, Len(filename) - Len(suffix) + 1, Len(filename)) = suffix

\* x in list
InList(x, list) == \E i \in 1..Len(list) : list[i] = x

\* all sequences over S of length lo..hi
SeqsOfLen(S, n) == [1..n -> S]
SeqsBetween(S, lo, hi) == UNION {SeqsOfLen(S, n) : n \in lo..hi}

-----------------------------------------------------------------------------
(* project_to_xml.analyzer: the two-tier matcher *)

\* matches_patterns with the '*' of a suffix pattern kept in the suffix
MatchesPatterns_KeepStar(filename, patterns) ==
    \E i \in 1..Len(patterns) :
        IF StartsWithStar(patterns[i])
        THEN EndsWith(filename, patterns[i])
        ELSE filename = patterns[i]

\* matches_patterns: the first pattern that matches returns True
RECURSIVE MatchesPatterns(_, _)
MatchesPatterns(filename, patterns) ==
    IF patterns = <<>> THEN FALSE
    ELSE LET pattern == Head(patterns) IN
         IF StartsWithStar(pattern)
         THEN IF EndsWith(filename, DropFirst(pattern)) THEN TRUE
              ELSE MatchesPatterns(filename, Tail(patterns))
         ELSE IF filename = pattern THEN TRUE
              ELSE MatchesPatterns(filename, Tail(patterns))

\* should_exclude whose content mode consults the content tier alone
ShouldExclude_ContentTierOnly(cfg, name, isdir, content_only) ==
    IF isdir
    THEN IF content_only
         THEN InList(name, cfg.content_excludes.folders)
         ELSE InList(name, cfg.full_excludes.folders)
    ELSE IF content_only
         THEN MatchesPatterns(name, cfg.content_excludes.files)
         ELSE MatchesPatterns(name, cfg.full_excludes.files)

\* should_exclude(path, content_only): name is os.path.basename(path) and
\* isdir is os.path.isdir(path)
ShouldExclude(cfg, name, isdir, content_only) ==
    IF isdir
    THEN IF content_only
         THEN \/ InList(name, cfg.full_excludes.folders)
              \/ InList(name, cfg.content_excludes.folders)
         ELSE InList(name, cfg.full_excludes.folders)
    ELSE IF content_only
         THEN \/ MatchesPatterns(name, cfg.full_excludes.files)
              \/ MatchesPatterns(name, cfg.content_excludes.files)
         ELSE MatchesPatterns(name, cfg.full_excludes.files)

-----------------------------------------------------------------------------
(* project_analyzer.analyzer: the single-list matcher *)

\* splitext taken as the text after the last '.', without the dot
SplitExt_NoDot(name) ==
    LET dots == {i \in 1..Len(name) : name[i] = "."} IN
    IF dots = {} THEN <<>>
    ELSE LET dotIndex == CHOOSE i \in dots : \A j \in dots : j <= i IN
         SubSeq(name, dotIndex + 1, Len(name))

\* os.path.splitext(name)[1] for a name without separators: the text from
\* the last '.', unless only '.' characters precede that dot
SplitExt(name) ==
    LET dots == {i \in 1..Len(name) : name[i] = "."} IN
    IF dots = {} THEN <<>>
    ELSE LET dotIndex == CHOOSE i \in dots : \A j \in dots : j <= i IN
         IF \E k \in 1..(dotIndex - 1) : name[k] # "."
         THEN SubSeq(name, dotIndex, Len(name))
         ELSE <<>>

\* should_exclude(path) of project_analyzer
LegacyShouldExclude(lcfg, name, isdir) ==
    LET ext == SplitExt(name) IN
    IF isdir THEN InList(name, lcfg.excluded_folders)
    ELSE IF InList(ext, lcfg.excluded_extensions) THEN TRUE
    ELSE MatchesPatterns(name, lcfg.excluded_files)

-----------------------------------------------------------------------------
(* Program constants *)

\* 'analyzer_config.json', the project-local configuration file
ConfigFileName ==
    <<"a", "n", "a", "l", "y", "z", "e", "r", "_", "c", "o", "n", "f", "i", "g",
      ".", "j", "s", "o", "n">>

\* default_config["default_output_name"]
DefaultOutputName ==
    <<"p", "r", "o", "j", "e", "c", "t", "_", "s", "t", "r", "u", "c", "t", "u",
      "r", "e", ".", "x", "m", "l">>

\* self.default_config, less project_overview
DefaultConfig ==
    [ full_excludes |->
        [ folders |->
            <<<<".", "g", "i", "t">>,
              <<"n", "o", "d", "e", "_", "m", "o", "d", "u", "l", "e", "s">>,
              <<"_", "_", "p", "y", "c", "a", "c", "h", "e", "_", "_">>,
              <<".", "v", "e", "n", "v">>,
              <<"v", "e", "n", "v">>,
              <<"e", "n", "v">>,
              <<".", "i", "d", "e", "a">>,
              <<".", "v", "s", "c", "o", "d", "e">>,
              <<"d", "i", "s", "t">>,
              <<"b", "u", "i", "l", "d">>,
              <<"e", "g", "g", "s">>,
              <<".", "e", "g", "g", "s">>,
              <<".", "p", "y", "t", "e", "s", "t", "_", "c", "a", "c", "h", "e">>,
              <<".", "m", "y", "p", "y", "_", "c", "a", "c", "h", "e">>,
              <<".", "c", "o", "v", "e", "r", "a", "g", "e">>,
              <<".", "t", "o", "x">>>>,
          files |->
            <<<<".", "D", "S", "_", "S", "t", "o", "r", "e">>,
              <<"*", ".", "p", "y", "c">>,
              <<"*", ".", "p", "y", "o">>,
              <<"*", ".", "p", "y", "d">>,
              <<"*", ".", "s", "o">>,
              <<"*", ".", "d", "y", "l", "i", "b">>,
              <<"*", ".", "d", "l", "l">>,
              <<".", "g", "i", "t", "i", "g", "n", "o", "r", "e">>,
              <<".", "c", "o", "v", "e", "r", "a", "g", "e">>,
              <<".", "p", "y", "t", "h", "o", "n", "-", "v", "e", "r", "s", "i", "o", "n">>>> ],
      content_excludes |->
        [ folders |->
            <<<<"m", "i", "g", "r", "a", "t", "i", "o", "n", "s">>,
              <<"s", "t", "a", "t", "i", "c">>,
              <<"m", "e", "d", "i", "a">>>>,
          files |->
            <<<<"_", "_", "i", "n", "i", "t", "_", "_", ".", "p", "y">>,
              <<"*", ".", "l", "o", "g">>,
              <<"*", ".", "p", "k", "l">>,
              <<"*", ".", "p", "d", "f">>,
              <<"*", ".", "j", "p", "g">>,
              <<"*", ".", "p", "n", "g">>,
              <<"*", ".", "s", "v", "g">>,
              <<"*", ".", "s", "q", "l", "i", "t", "e", "3">>,
              <<"*", ".", "d", "b">>,
              <<"*", ".", "c", "s", "v">>,
              <<"*", ".", "j", "s", "o", "n">>,
              <<"*", ".", "x", "m", "l">>,
              <<"*", ".", "y", "a", "m", "l">>,
              <<"*", ".", "y", "m", "l">>,
              <<"*", ".", "e", "n", "v">>,
              <<"*", ".", "l", "o", "c", "k">>,
              <<"r", "e", "q", "u", "i", "r", "e", "m", "e", "n", "t", "s", ".", "t", "x", "t">>>> ],
      default_output_name |-> DefaultOutputName ]

\* Unicode code points of the characters used in file names (str comparison
\* in sorted() is by code point)
CodePoints ==
    { <<"*", 42>>, <<"-", 45>>, <<".", 46>>, <<"3", 51>>, <<">", 62>>,
      <<"D", 68>>, <<"L", 76>>, <<"S", 83>>, <<"]", 93>>, <<"_", 95>>,
      <<"a", 97>>, <<"b", 98>>, <<"c", 99>>, <<"d", 100>>, <<"e", 101>>,
      <<"f", 102>>, <<"g", 103>>, <<"h", 104>>, <<"i", 105>>, <<"j", 106>>,
      <<"k", 107>>, <<"l", 108>>, <<"m", 109>>, <<"n", 110>>, <<"o", 111>>,
      <<"p", 112>>, <<"q", 113>>, <<"r", 114>>, <<"s", 115>>, <<"t", 116>>,
      <<"u", 117>>, <<"v", 118>>, <<"x", 120>>, <<"y", 121>>, <<"z", 122>> }

Ord(c) == (CHOOSE p \in CodePoints : p[1] = c)[2]

-----------------------------------------------------------------------------
(* Configuration files *)

\* dict.update(other): the top-level keys of other replace those of cfg
DictUpdate(cfg, other) ==
    [k \in DOMAIN cfg \cup DOMAIN other |->
        IF k \in DOMAIN other THEN other[k] ELSE cfg[k]]

\* a configuration file as try_load_config and update_config_for_project
\* see it: present or not, and what json.load gives (valid = FALSE: json.load
\* or update raises and the except branch prints a warning)
NoConfigFile == [present |-> FALSE, valid |-> FALSE, json |-> <<>>]

\* load_config(config_path): the file at config_path, else
\* 'analyzer_config.json' of the working directory, else the defaults
LoadConfig(explicit, cwdfile) ==
    IF explicit.present /\ explicit.valid
    THEN DictUpdate(DefaultConfig, explicit.json)
    ELSE IF cwdfile.present /\ cwdfile.valid
    THEN DictUpdate(DefaultConfig, cwdfile.json)
    ELSE DefaultConfig

-----------------------------------------------------------------------------
(* The file system.  A path is the sequence of its components from "/";   *)
(* f maps every existing path to its node.                                *)
(*   kind   "dir", "file" (regular file) or "other" (fifo, broken link)    *)
(*   list   what os.listdir does on a directory: "ok" or the OSError raised*)
(*   read   what open(..., encoding='utf-8').read() does on a file: "ok"   *)
(*          or the exception raised                                        *)
(*   text   the decoded text of a file                                     *)
(*   valid, json   whether json.load and dict.update succeed on the file,  *)
(*          and the top-level keys it then sets                            *)
(***************************************************************************)

Exists(f, path) == path \in DOMAIN f

\* os.path.isdir(path)
IsDir(f, path) == Exists(f, path) /\ f[path].kind = "dir"

\* os.path.isfile(path)
IsFile(f, path) == Exists(f, path) /\ f[path].kind = "file"

\* os.path.basename(path)
Basename(path) == path[Len(path)]

\* os.path.dirname(path)
Dirname(path) == SubSeq(path, 1, Len(path) - 1)

IsPrefix(p, q) == Len(p) <= Len(q) /\ SubSeq(q, 1, Len(p)) = p

\* os.path.relpath(full_path, folder) for a path below folder
RelPath(full_path, folder) ==
    SubSeq(full_path, Len(folder) + 1, Len(full_path))

\* os.listdir(path): the names in the directory, in no particular order,
\* or the OSError it raises
ListDir(f, path) ==
    IF ~Exists(f, path) THEN [err |-> "FileNotFoundError", items |-> {}]
    ELSE IF f[path].kind # "dir" THEN [err |-> "NotADirectoryError", items |-> {}]
    ELSE IF f[path].list # "ok" THEN [err |-> f[path].list, items |-> {}]
    ELSE [err |-> "none",
          items |-> {Basename(q) : q \in {r \in DOMAIN f :
                        Len(r) = Len(path) + 1 /\ IsPrefix(path, r)}}]

\* str < str: the first differing character decides, by code point; a
\* proper prefix is smaller
LexLess(a, b) ==
    \E i \in 1..Len(b) :
        /\ i <= Len(a) + 1
        /\ SubSeq(a, 1, i - 1) = SubSeq(b, 1, i - 1)
        /\ \/ i = Len(a) + 1
           \/ Ord(a[i]) < Ord(b[i])

\* sorted() that puts the largest name first
RECURSIVE Sorted_Descending(_)
Sorted_Descending(S) ==
    IF S = {} THEN <<>>
    ELSE LET m == CHOOSE x \in S : \A y \in S : x = y \/ LexLess(y, x)
         IN <<m>> \o Sorted_Descending(S \ {m})

\* sorted(os.listdir(path))
RECURSIVE Sorted(_)
Sorted(S) ==
    IF S = {} THEN <<>>
    ELSE LET m == CHOOSE x \in S : \A y \in S : x = y \/ LexLess(x, y)
         IN <<m>> \o Sorted(S \ {m})

\* update_config_for_project(project_path): the keys of a loadable
\* analyzer_config.json in the project directory replace those of
\* self.config; any failure only prints a warning
UpdateConfigForProject(cfg, f, project_path) ==
    LET config_path == project_path \o <<ConfigFileName>> IN
    IF /\ Exists(f, config_path)
       /\ f[config_path].kind = "file"
       /\ f[config_path].read = "ok"
       /\ f[config_path].valid
    THEN DictUpdate(cfg, f[config_path].json)
    ELSE cfg

-----------------------------------------------------------------------------
(* create_project_xml: the two passes over the tree.  Each returns         *)
(* [err, elems]: the exception that left it ("none" when it returned) and  *)
(* the elements appended to parent_element.                                *)

NoError(elems) == [err |-> "none", elems |-> elems]
Raise(e) == [err |-> e, elems |-> <<>>]

DirElement(item, children) ==
    [tag |-> "dir", name |-> item, path |-> <<>>, children |-> children]

FileElement(item, relpath) ==
    [tag |-> "file", name |-> item, path |-> relpath, children |-> <<>>]

RECURSIVE ProcessDirectoryStructure(_, _, _, _)
RECURSIVE StructureItems(_, _, _, _, _)

\* the for loop of process_directory_structure over the sorted items
StructureItems(f, cfg, folder, path, items) ==
    IF items = <<>> THEN NoError(<<>>)
    ELSE
      LET item      == Head(items)
          full_path == path \o <<item>>
          rest      == StructureItems(f, cfg, folder, path, Tail(items))
      IN
      IF ShouldExclude(cfg, Basename(full_path), IsDir(f, full_path), FALSE)
      THEN rest
      ELSE IF IsDir(f, full_path)
      THEN LET sub == ProcessDirectoryStructure(f, cfg, folder, full_path) IN
           IF sub.err # "none" THEN Raise(sub.err)
           ELSE IF rest.err # "none" THEN rest
           ELSE NoError(<<DirElement(item, sub.elems)>> \o rest.elems)
      ELSE IF rest.err # "none" THEN rest
           ELSE NoError(<<FileElement(item, RelPath(full_path, folder))>>
                          \o rest.elems)

\* process_directory_structure(path, parent_element)
ProcessDirectoryStructure(f, cfg, folder, path) ==
    LET listing == ListDir(f, path) IN
    IF listing.err = "PermissionError" THEN NoError(<<>>)
    ELSE IF listing.err # "none" THEN Raise(listing.err)
    ELSE StructureItems(f, cfg, folder, path, Sorted(listing.items))

RECURSIVE ProcessFilesContent(_, _, _, _)
RECURSIVE ContentItems(_, _, _, _, _)

\* the for loop of process_files_content asking should_exclude in
\* structure mode
ContentItems_StructureTier(f, cfg, folder, path, items) ==
    IF items = <<>> THEN NoError(<<>>)
    ELSE
      LET item      == Head(items)
          full_path == path \o <<item>>
          rest      == ContentItems(f, cfg, folder, path, Tail(items))
      IN
      IF ShouldExclude(cfg, Basename(full_path), IsDir(f, full_path), FALSE)
      THEN rest
      ELSE IF IsFile(f, full_path)
      THEN IF rest.err # "none" THEN rest
           ELSE NoError(<<FileElement(item, RelPath(full_path, folder))>>
                          \o rest.elems)
      ELSE IF IsDir(f, full_path)
      THEN LET sub == ProcessFilesContent(f, cfg, folder, full_path) IN
           IF sub.err # "none" THEN Raise(sub.err)
           ELSE IF rest.err # "none" THEN rest
           ELSE NoError(sub.elems \o rest.elems)
      ELSE rest

\* the for loop of process_files_content over the sorted items
ContentItems(f, cfg, folder, path, items) ==
    IF items = <<>> THEN NoError(<<>>)
    ELSE
      LET item      == Head(items)
          full_path == path \o <<item>>
          rest      == ContentItems(f, cfg, folder, path, Tail(items))
      IN
      IF ShouldExclude(cfg, Basename(full_path), IsDir(f, full_path), TRUE)
      THEN rest
      ELSE IF IsFile(f, full_path)
      THEN IF rest.err # "none" THEN rest
           ELSE NoError(<<FileElement(item, RelPath(full_path, folder))>>
                          \o rest.elems)
      ELSE IF IsDir(f, full_path)
      THEN LET sub == ProcessFilesContent(f, cfg, folder, full_path) IN
           IF sub.err # "none" THEN Raise(sub.err)
           ELSE IF rest.err # "none" THEN rest
           ELSE NoError(sub.elems \o rest.elems)
      ELSE rest

\* process_files_content that walks each listing from the largest name down
ProcessFilesContent_Descending(f, cfg, folder, path) ==
    LET listing == ListDir(f, path) IN
    IF listing.err = "PermissionError" THEN NoError(<<>>)
    ELSE IF listing.err # "none" THEN Raise(listing.err)
    ELSE ContentItems(f, cfg, folder, path, Sorted_Descending(listing.items))

\* process_files_content(path, parent_element)
ProcessFilesContent(f, cfg, folder, path) ==
    LET listing == ListDir(f, path) IN
    IF listing.err = "PermissionError" THEN NoError(<<>>)
    ELSE IF listing.err # "none" THEN Raise(listing.err)
    ELSE ContentItems(f, cfg, folder, path, Sorted(listing.items))

-----------------------------------------------------------------------------
(* create_project_xml: from the element tree to the written document *)

Amp == "&"

\* ElementTree's attribute escaping of one character (ET.tostring)
EscapeChar(c) ==
    IF c = Amp THEN <<Amp, "a", "m", "p", ";">>
    ELSE IF c = "<" THEN <<Amp, "l", "t", ";">>
    ELSE IF c = ">" THEN <<Amp, "g", "t", ";">>
    ELSE IF c = "\"" THEN <<Amp, "q", "u", "o", "t", ";">>
    ELSE <<c>>

RECURSIVE EscapeAttrib(_)
EscapeAttrib(s) ==
    IF s = <<>> THEN <<>> ELSE EscapeChar(Head(s)) \o EscapeAttrib(Tail(s))

\* the character an entity reference stands for (minidom.parseString)
EntityChar(ref) ==
    IF ref = <<"a", "m", "p">> THEN Amp
    ELSE IF ref = <<"l", "t">> THEN "<"
    ELSE IF ref = <<"g", "t">> THEN ">"
    ELSE "\""

\* the parser's reading of an attribute value: entity references replaced
RECURSIVE UnescapeAttrib(_)
UnescapeAttrib(s) ==
    IF s = <<>> THEN <<>>
    ELSE IF Head(s) = Amp
    THEN LET semi == CHOOSE i \in 2..Len(s) :
                        s[i] = ";" /\ \A j \in 2..(i - 1) : s[j] # ";"
         IN <<EntityChar(SubSeq(s, 2, semi - 1))>>
              \o UnescapeAttrib(SubSeq(s, semi + 1, Len(s)))
    ELSE <<Head(s)>> \o UnescapeAttrib(Tail(s))

\* an attribute value written by ET.tostring and read back by parseString
AttrRoundTrip(s) == UnescapeAttrib(EscapeAttrib(s))

\* a relative path written and read back: every component goes through the
\* attribute (the separators are plain characters)
PathRoundTrip(path) == [i \in 1..Len(path) |-> AttrRoundTrip(path[i])]

\* the elements of a list after tostring and parseString
RECURSIVE DomOf(_)
DomOf(elems) ==
    [i \in 1..Len(elems) |->
        [tag      |-> elems[i].tag,
         name     |-> AttrRoundTrip(elems[i].name),
         path     |-> PathRoundTrip(elems[i].path),
         children |-> DomOf(elems[i].children)]]

\* ']]>', the terminator of a CDATA section
CdataEnd == <<"]", "]", ">">>

\* '<![CDATA['
CdataOpen == <<"<", "!", "[", "C", "D", "A", "T", "A", "[">>

\* sub in s
Contains(s, sub) ==
    \E i \in 1..(Len(s) - Len(sub) + 1) : SubSeq(s, i, i + Len(sub) - 1) = sub

\* content.replace(']]>', ']]]]><![CDATA[>'): every occurrence, left to
\* right, without overlap
RECURSIVE ReplaceTerminator(_)
ReplaceTerminator(s) ==
    IF Len(s) < 3 THEN s
    ELSE IF SubSeq(s, 1, 3) = CdataEnd
    THEN <<"]", "]", "]", "]", ">">> \o CdataOpen \o <<">">>
           \o ReplaceTerminator(SubSeq(s, 4, Len(s)))
    ELSE <<Head(s)>> \o ReplaceTerminator(Tail(s))

\* a path as the text os.path.join gives
RECURSIVE PathText(_)
PathText(path) ==
    IF path = <<>> THEN <<>> ELSE <<"/">> \o Head(path) \o PathText(Tail(path))

\* str(e) of the exception a failed open or read raises; the fixed wording
\* is one token, the file name is spelled out (OSError quotes it)
StrError(err, full_path) ==
    IF err = "UnicodeDecodeError"
    THEN <<"'utf-8' codec can't decode byte 0xff in position 0: invalid start byte">>
    ELSE <<err, ": '">> \o PathText(full_path) \o <<"'">>

\* with open(full_path, 'r', encoding='utf-8') as f: f.read()
OpenRead(f, full_path) ==
    IF ~Exists(f, full_path) THEN [err |-> "FileNotFoundError", text |-> <<>>]
    ELSE IF f[full_path].kind = "dir" THEN [err |-> "IsADirectoryError", text |-> <<>>]
    ELSE IF f[full_path].read # "ok" THEN [err |-> f[full_path].read, text |-> <<>>]
    ELSE [err |-> "none", text |-> f[full_path].text]

\* the body of the loop over the content elements without the except branch
CdataFor_NoCatch(f, folder, file_path) ==
    LET full_path == folder \o file_path
        got       == OpenRead(f, full_path)
    IN
    IF got.err # "none" THEN [err |-> got.err, data |-> <<>>]
    ELSE IF Contains(got.text, CdataEnd)
    THEN [err |-> "none", data |-> ReplaceTerminator(got.text)]
    ELSE [err |-> "none", data |-> got.text]

\* the body of the loop over the content elements: the data of the CDATA
\* section appended to one content element, and the exception that leaves
\* the loop (none: the except branch catches every Exception)
CdataFor(f, folder, file_path) ==
    LET full_path == folder \o file_path
        got       == OpenRead(f, full_path)
    IN
    IF got.err # "none"
    THEN [err  |-> "none",
          data |-> <<"Error reading file: ">> \o StrError(got.err, full_path)]
    ELSE IF Contains(got.text, CdataEnd)
    THEN [err |-> "none", data |-> ReplaceTerminator(got.text)]
    ELSE [err |-> "none", data |-> got.text]

\* dom.toprettyxml: CDATASection.writexml raises ValueError when the data
\* of a section holds ']]>'
ToPrettyXml(cdatas) ==
    IF \E i \in 1..Len(cdatas) : Contains(cdatas[i], CdataEnd)
    THEN "ValueError"
    ELSE "none"

\* the text of the written document as a later read sees it: the markup is
\* one token per tag, each content element holds its CDATA section
RECURSIVE RenderContents(_)
RenderContents(cdatas) ==
    IF cdatas = <<>> THEN <<>>
    ELSE <<"<file><content>">> \o CdataOpen \o Head(cdatas) \o CdataEnd
           \o <<"</content></file>">> \o RenderContents(Tail(cdatas))

Render(doc) ==
    <<"<project>">> \o RenderContents(doc.cdata) \o <<"</project>">>

\* open(output_file, 'w', encoding='utf-8'): the exception raised, if any
OpenWrite(f, output) ==
    IF output = <<>> THEN "IsADirectoryError"
    ELSE IF ~Exists(f, Dirname(output)) THEN "FileNotFoundError"
    ELSE IF f[Dirname(output)].kind # "dir" THEN "NotADirectoryError"
    ELSE IF Exists(f, output) /\ f[output].kind = "dir" THEN "IsADirectoryError"
    ELSE "none"

FileNode(text) ==
    [kind |-> "file", list |-> "ok", read |-> "ok", text |-> text,
     valid |-> FALSE, json |-> <<>>]

DirNode(list) ==
    [kind |-> "dir", list |-> list, read |-> "ok", text |-> <<>>,
     valid |-> FALSE, json |-> <<>>]

\* f.write(xml_str) on the opened output file: the file holds the document
WriteFile(f, output, text) ==
    [p \in DOMAIN f \cup {output} |->
        IF p = output
        THEN IF Exists(f, output)
             THEN [f[output] EXCEPT !.text = text, !.valid = FALSE, !.json = <<>>]
             ELSE FileNode(text)
        ELSE f[p]]

\* os.path.abspath(folder_path) with the working directory at '/': '.' and
\* empty components dropped, '..' dropping the component before it
RECURSIVE NormPath(_, _)
NormPath(done, todo) ==
    IF todo = <<>> THEN done
    ELSE IF Head(todo) = <<".">> \/ Head(todo) = <<>>
    THEN NormPath(done, Tail(todo))
    ELSE IF Head(todo) = <<".", ".">>
    THEN NormPath(IF done = <<>> THEN <<>> ELSE Dirname(done), Tail(todo))
    ELSE NormPath(Append(done, Head(todo)), Tail(todo))

AbsPath(path) == NormPath(<<>>, path)

\* the default output path with the built-in name in place of the configured one
OutputFileFor_BuiltinName(cfg, folder, arg) ==
    IF arg.given THEN arg.path
    ELSE folder \o <<DefaultOutputName>>

\* output_file as create_project_xml settles it: the caller's, else
\* os.path.join(folder_path, self.config["default_output_name"])
OutputFileFor(cfg, folder, arg) ==
    IF arg.given THEN arg.path
    ELSE folder \o <<cfg.default_output_name>>

-----------------------------------------------------------------------------
(* Inputs of the runs: names, texts, configuration files, trees *)

\* the project directory /p
P     == <<<<"p">>>>
LIB   == <<"L", "i", "b">>
ENV   == <<"e", "n", "v">>
MEDIA == <<"m", "e", "d", "i", "a">>
AC    == <<"a", ".", "c">>
ADB   == <<"a", ".", "d", "b">>
BC    == <<"b", ".", "c">>
OC    == <<"o", ".", "c">>
OXML  == <<"o", ".", "x", "m", "l">>
DOTDOT == <<".", ".">>

\* file texts: plain, one terminator inside, two adjacent terminators
TextHi == <<"h", "i">>
TextOneEnd == <<"x", "]", "]", ">", "y">>
TextTwoEnds == <<"]", "]", ">", "]", "]", ">">>

\* an analyzer_config.json given to the constructor: no content tier, and
\* the output named 'o.c'
UserJson ==
    [ content_excludes    |-> [folders |-> <<>>, files |-> <<>>],
      default_output_name |-> OC ]

\* an analyzer_config.json in a project: its own full tier
ProjectJson ==
    [ full_excludes |-> [folders |-> <<MEDIA>>,
                         files   |-> <<<<"*", ".", "d", "b">>>>] ]

ValidConfigFile(json) == [present |-> TRUE, valid |-> TRUE, json |-> json]
BrokenConfigFile == [present |-> TRUE, valid |-> FALSE, json |-> <<>>]

\* the configurations an analyzer can have after construction
ConstructedConfigs ==
    { LoadConfig(explicit, cwdfile) :
        explicit \in {NoConfigFile, BrokenConfigFile, ValidConfigFile(UserJson)},
        cwdfile  \in {NoConfigFile, ValidConfigFile(UserJson)} }

ConfigNode(valid, json) ==
    [kind |-> "file", list |-> "ok", read |-> "ok", text |-> <<"{", "}">>,
     valid |-> valid, json |-> json]

UndecodableNode ==
    [kind |-> "file", list |-> "ok", read |-> "UnicodeDecodeError",
     text |-> <<>>, valid |-> FALSE, json |-> <<>>]

UnreadableNode ==
    [kind |-> "file", list |-> "ok", read |-> "PermissionError",
     text |-> <<>>, valid |-> FALSE, json |-> <<>>]

OtherNode ==
    [kind |-> "other", list |-> "ok", read |-> "ok", text |-> <<>>,
     valid |-> FALSE, json |-> <<>>]

\* a file system from its (path, node) pairs; '/' is always a directory
MakeFs(pairs) ==
    LET all == pairs \cup {<<<<>>, DirNode("ok")>>} IN
    [p \in {x[1] : x \in all} |-> (CHOOSE x \in all : x[1] = p)[2]]

\* the choices for each part of the tree under /p
ConfigSlot ==
    { {},
      {<<P \o <<ConfigFileName>>, ConfigNode(FALSE, <<>>)>>},
      {<<P \o <<ConfigFileName>>, ConfigNode(TRUE, ProjectJson)>>} }

FileSlot ==
    { {},
      {<<P \o <<AC>>, FileNode(TextHi)>>},
      {<<P \o <<AC>>, FileNode(TextOneEnd)>>} }

EnvSlot ==
    { {},
      {<<P \o <<ENV>>, DirNode("ok")>>, <<P \o <<ENV, AC>>, FileNode(TextHi)>>} }

LibFiles ==
    { a \cup m :
        a \in { {}, {<<P \o <<LIB, ADB>>, FileNode(TextHi)>>} },
        m \in { {}, {<<P \o <<LIB, MEDIA>>, DirNode("ok")>>,
                     <<P \o <<LIB, MEDIA, BC>>, FileNode(TextHi)>>} } }

LibSlot ==
    { {} } \cup { {<<P \o <<LIB>>, DirNode("ok")>>} \cup c : c \in LibFiles }

GeneratedTrees ==
    { MakeFs({<<P, DirNode("ok")>>} \cup c \cup f \cup e \cup l) :
        c \in ConfigSlot, f \in FileSlot, e \in EnvSlot, l \in LibSlot }

\* trees with one unusual node each
SpecialTrees ==
    { MakeFs({}),
      MakeFs({<<P, DirNode("PermissionError")>>, <<P \o <<AC>>, FileNode(TextHi)>>}),
      MakeFs({<<P, DirNode("OSError")>>, <<P \o <<AC>>, FileNode(TextHi)>>}),
      MakeFs({<<P, FileNode(TextHi)>>}),
      MakeFs({<<P, DirNode("ok")>>, <<P \o <<AC>>, OtherNode>>,
              <<P \o <<BC>>, FileNode(TextHi)>>}),
      MakeFs({<<P, DirNode("ok")>>, <<P \o <<AC>>, UnreadableNode>>,
              <<P \o <<BC>>, FileNode(TextTwoEnds)>>}),
      MakeFs({<<P, DirNode("ok")>>, <<P \o <<CdataEnd>>, FileNode(TextHi)>>,
              <<P \o <<AC>>, FileNode(TextHi)>>}),
      MakeFs({<<P, DirNode("ok")>>, <<P \o <<AC>>, UndecodableNode>>,
              <<P \o <<BC>>, FileNode(TextHi)>>,
              <<P \o <<OC>>, FileNode(TextHi)>>}),
      MakeFs({<<P, DirNode("ok")>>, <<P \o <<AC>>, FileNode(TextHi)>>,
              <<P \o <<LIB>>, DirNode("PermissionError")>>,
              <<P \o <<LIB, ADB>>, FileNode(TextHi)>>}),
      MakeFs({<<P, DirNode("ok")>>, <<P \o <<AC>>, FileNode(TextHi)>>,
              <<P \o <<LIB>>, DirNode("OSError")>>,
              <<P \o <<LIB, ADB>>, FileNode(TextHi)>>}),
      MakeFs({<<P, DirNode("ok")>>, <<P \o <<AC>>, FileNode(TextHi)>>,
              <<P \o <<ENV>>, DirNode("OSError")>>,
              <<P \o <<ENV, AC>>, FileNode(TextHi)>>}),
      MakeFs({<<P, DirNode("ok")>>, <<P \o <<LIB>>, FileNode(TextHi)>>,
              <<P \o <<MEDIA>>, FileNode(TextHi)>>,
              <<P \o <<ADB>>, DirNode("ok")>>,
              <<P \o <<ADB, AC>>, FileNode(TextHi)>>}) }

InitialTrees == GeneratedTrees \cup SpecialTrees

\* folder_path arguments: the project /p, its sub-project /p/Lib, and /p
\* spelled through '..'
FolderArgs == { P, P \o <<LIB>>, P \o <<LIB, DOTDOT>> }

\* output_file arguments: None, or /o.xml outside the project
OutputArgs ==
    { [given |-> FALSE, path |-> <<>>], [given |-> TRUE, path |-> <<OXML>>] }

-----------------------------------------------------------------------------
(* Inputs of the matcher checks *)

MatchChars == {"*", ".", "a"}

\* base names: every name over MatchChars, and two names in another case
MatchNames ==
    SeqsBetween(MatchChars, 1, MaxNameLen) \cup {<<"A">>, <<"a", ".", "A">>}

FolderLists ==
    { <<>>, <<<<"a">>>>, <<<<".", "a">>, <<"a", "a">>>> }

PatternLists ==
    { <<>>,
      <<<<"*">>>>,
      <<<<"a">>>>,
      <<<<"*", ".", "a">>>>,
      <<<<"*", "a">>>>,
      <<<<".", "a">>>>,
      <<<<"a", "*">>>>,
      <<<<"*", "*">>>>,
      <<<<>>, <<"*", ".", "A">>>>,
      <<<<"a", "a">>, <<"*", ".">>>>,
      <<<<"*", "a", ".">>, <<"a", ".", "a">>, <<"*", ".", "a">>>> }

ExtensionLists ==
    { <<>>,
      <<<<".", "a">>>>,
      <<<<".">>>>,
      <<<<"a">>>>,
      <<<<>>>>,
      <<<<".", "a", ".", "a">>>>,
      <<<<".", "A">>, <<".", "a">>>> }

TwoTierConfigs ==
    [ full_excludes    : [folders : FolderLists, files : PatternLists],
      content_excludes : [folders : FolderLists, files : PatternLists] ]

LegacyConfigs ==
    [ excluded_folders    : FolderLists,
      excluded_files      : {<<>>, <<<<"a">>>>, <<<<"*", "a", ".">>, <<".", "a">>>>},
      excluded_extensions : ExtensionLists ]

NoTwoTier ==
    [ full_excludes    |-> [folders |-> <<>>, files |-> <<>>],
      content_excludes |-> [folders |-> <<>>, files |-> <<>>] ]

NoLegacy ==
    [ excluded_folders |-> <<>>, excluded_files |-> <<>>,
      excluded_extensions |-> <<>> ]

NoResult == [structure |-> FALSE, content |-> FALSE, legacy |-> FALSE]

\* the two-tier configuration with both tiers set to the single lists:
\* folders = F, files = P plus '*'+e for each extension e
RECURSIVE StarPatterns(_)
StarPatterns(exts) ==
    IF exts = <<>> THEN <<>>
    ELSE <<(<<"*">> \o Head(exts))>> \o StarPatterns(Tail(exts))

TwoTierOf(lcfg) ==
    LET tier == [folders |-> lcfg.excluded_folders,
                 files   |-> lcfg.excluded_files
                               \o StarPatterns(lcfg.excluded_extensions)]
    IN [full_excludes |-> tier, content_excludes |-> tier]

-----------------------------------------------------------------------------
(* Spec: one ProjectAnalyzer, constructed, on which create_project_xml is  *)
(* called up to MaxRuns times while files may disappear between the        *)
(* listing and the reads                                                   *)

rvars == <<config, config0, fs, fs0, pc, runs, folder_path, output_arg,
           output_file, structure, contents, cdata, reads, raised, returned>>

RunIdle ==
    /\ config0 = config
    /\ fs0 = fs
    /\ pc = "idle"
    /\ runs = 0
    /\ folder_path = <<>>
    /\ output_arg = [given |-> FALSE, path |-> <<>>]
    /\ output_file = <<>>
    /\ structure = <<>>
    /\ contents = <<>>
    /\ cdata = <<>>
    /\ reads = <<>>
    /\ raised = "none"
    /\ returned = <<>>

MatcherIdle ==
    /\ m_config = NoTwoTier
    /\ m_legacy = NoLegacy
    /\ m_path = [name |-> <<>>, isdir |-> FALSE]
    /\ m_called = FALSE
    /\ m_result = NoResult

\* ProjectAnalyzer(config_path): self.config is what load_config resolved
Init ==
    /\ config \in ConstructedConfigs
    /\ fs \in InitialTrees
    /\ RunIdle
    /\ MatcherIdle

\* create_project_xml that opens output_file for writing as soon as the
\* path is settled, ahead of the two passes
Call_WriteFirst(folder_arg, out_arg) ==
    /\ pc \in {"idle", "done", "raised"}
    /\ runs < MaxRuns
    /\ runs' = runs + 1
    /\ folder_path' = AbsPath(folder_arg)
    /\ config' = UpdateConfigForProject(config, fs, folder_path')
    /\ output_arg' = out_arg
    /\ output_file' = OutputFileFor(config', folder_path', out_arg)
    /\ fs0' = fs
    /\ fs' = IF OpenWrite(fs, output_file') = "none"
             THEN WriteFile(fs, output_file', <<>>)
             ELSE fs
    /\ structure' = <<>>
    /\ contents' = <<>>
    /\ cdata' = <<>>
    /\ reads' = <<>>
    /\ raised' = "none"
    /\ returned' = <<>>
    /\ pc' = "structure"
    /\ UNCHANGED config0
    /\ UNCHANGED mvars

\* create_project_xml(folder_path, output_file), up to the first pass:
\* abspath, update_config_for_project, the output path
Call(folder_arg, out_arg) ==
    /\ pc \in {"idle", "done", "raised"}
    /\ runs < MaxRuns
    /\ runs' = runs + 1
    /\ folder_path' = AbsPath(folder_arg)
    /\ config' = UpdateConfigForProject(config, fs, folder_path')
    /\ output_arg' = out_arg
    /\ output_file' = OutputFileFor(config', folder_path', out_arg)
    /\ fs0' = fs
    /\ structure' = <<>>
    /\ contents' = <<>>
    /\ cdata' = <<>>
    /\ reads' = <<>>
    /\ raised' = "none"
    /\ returned' = <<>>
    /\ pc' = "structure"
    /\ UNCHANGED <<config0, fs>>
    /\ UNCHANGED mvars

\* process_directory_structure(folder_path, structure)
StructurePass ==
    /\ pc = "structure"
    /\ LET r == ProcessDirectoryStructure(fs, config, folder_path, folder_path) IN
       IF r.err # "none"
       THEN /\ pc' = "raised"
            /\ raised' = r.err
            /\ UNCHANGED structure
       ELSE /\ pc' = "content"
            /\ structure' = r.elems
            /\ UNCHANGED raised
    /\ UNCHANGED <<config, config0, fs, fs0, runs, folder_path, output_arg,
                   output_file, contents, cdata, reads, returned>>
    /\ UNCHANGED mvars

\* process_files_content(folder_path, contents), then ET.tostring and
\* minidom.parseString
ContentPass ==
    /\ pc = "content"
    /\ LET r == ProcessFilesContent(fs, config, folder_path, folder_path) IN
       IF r.err # "none"
       THEN /\ pc' = "raised"
            /\ raised' = r.err
            /\ UNCHANGED <<structure, contents>>
       ELSE /\ pc' = "populate"
            /\ structure' = DomOf(structure)
            /\ contents' = DomOf(r.elems)
            /\ UNCHANGED raised
    /\ UNCHANGED <<config, config0, fs, fs0, runs, folder_path, output_arg,
                   output_file, cdata, reads, returned>>
    /\ UNCHANGED mvars

\* one turn of the loop over the content elements: read the file of the
\* next element and append its CDATA section
PopulateNext ==
    /\ pc = "populate"
    /\ Len(cdata) < Len(contents)
    /\ LET file_path == contents[Len(cdata) + 1].path
           c         == CdataFor(fs, folder_path, file_path)
       IN
       IF c.err # "none"
       THEN /\ pc' = "raised"
            /\ raised' = c.err
            /\ UNCHANGED <<cdata, reads>>
       ELSE /\ cdata' = Append(cdata, c.data)
            /\ reads' = Append(reads, OpenRead(fs, folder_path \o file_path))
            /\ UNCHANGED <<pc, raised>>
    /\ UNCHANGED <<config, config0, fs, fs0, runs, folder_path, output_arg,
                   output_file, structure, contents, returned>>
    /\ UNCHANGED mvars

\* dom.toprettyxml(indent="  "), once every content element is populated
Serialize ==
    /\ pc = "populate"
    /\ Len(cdata) = Len(contents)
    /\ LET e == ToPrettyXml(cdata) IN
       IF e # "none"
       THEN pc' = "raised" /\ raised' = e
       ELSE pc' = "write" /\ UNCHANGED raised
    /\ UNCHANGED <<config, config0, fs, fs0, runs, folder_path, output_arg,
                   output_file, structure, contents, cdata, reads, returned>>
    /\ UNCHANGED mvars

\* open(output_file, 'w'), f.write(xml_str), return output_file
WriteAndReturn ==
    /\ pc = "write"
    /\ LET e == OpenWrite(fs, output_file) IN
       IF e # "none"
       THEN /\ pc' = "raised"
            /\ raised' = e
            /\ UNCHANGED <<fs, returned>>
       ELSE /\ pc' = "done"
            /\ fs' = WriteFile(fs, output_file, Render([cdata |-> cdata]))
            /\ returned' = output_file
            /\ UNCHANGED raised
    /\ UNCHANGED <<config, config0, fs0, runs, folder_path, output_arg,
                   output_file, structure, contents, cdata, reads>>
    /\ UNCHANGED mvars

\* the environment: the file of the next content element is removed after
\* the listing and before the loop reads it
DeleteFile ==
    /\ pc = "populate"
    /\ Len(cdata) < Len(contents)
    /\ LET full_path == folder_path \o contents[Len(cdata) + 1].path IN
          /\ Exists(fs, full_path)
          /\ fs' = [p \in DOMAIN fs \ {full_path} |-> fs[p]]
    /\ UNCHANGED <<config, config0, fs0, pc, runs, folder_path, output_arg,
                   output_file, structure, contents, cdata, reads, raised,
                   returned>>
    /\ UNCHANGED mvars

Next ==
    \/ \E folder_arg \in FolderArgs, out_arg \in OutputArgs :
          Call(folder_arg, out_arg)
    \/ StructurePass
    \/ ContentPass
    \/ PopulateNext
    \/ Serialize
    \/ WriteAndReturn
    \/ DeleteFile

Spec == Init /\ [][Next]_vars

-----------------------------------------------------------------------------
(* SpecMatch: should_exclude of project_to_xml applied to every path *)

MatchInit ==
    /\ m_config \in TwoTierConfigs
    /\ m_legacy = NoLegacy
    /\ m_path = [name |-> <<>>, isdir |-> FALSE]
    /\ m_called = FALSE
    /\ m_result = NoResult
    /\ config = DefaultConfig
    /\ fs = MakeFs({})
    /\ RunIdle

CallShouldExclude ==
    \E name \in MatchNames, isdir \in BOOLEAN :
        /\ ~m_called
        /\ m_path' = [name |-> name, isdir |-> isdir]
        /\ m_called' = TRUE
        /\ m_result' = [structure |-> ShouldExclude(m_config, name, isdir, FALSE),
                        content   |-> ShouldExclude(m_config, name, isdir, TRUE),
                        legacy    |-> FALSE]
        /\ UNCHANGED <<m_config, m_legacy>>
        /\ UNCHANGED rvars

MatchNext == CallShouldExclude

SpecMatch == MatchInit /\ [][MatchNext]_vars

-----------------------------------------------------------------------------
(* SpecLegacy: both matchers applied to one path under a single-list       *)
(* configuration and the two-tier configuration made from it               *)

LegacyInit ==
    /\ m_legacy \in LegacyConfigs
    /\ m_config = TwoTierOf(m_legacy)
    /\ m_path = [name |-> <<>>, isdir |-> FALSE]
    /\ m_called = FALSE
    /\ m_result = NoResult
    /\ config = DefaultConfig
    /\ fs = MakeFs({})
    /\ RunIdle

CallBothMatchers ==
    \E name \in MatchNames, isdir \in BOOLEAN :
        /\ ~m_called
        /\ m_path' = [name |-> name, isdir |-> isdir]
        /\ m_called' = TRUE
        /\ m_result' = [structure |-> ShouldExclude(m_config, name, isdir, FALSE),
                        content   |-> ShouldExclude(m_config, name, isdir, TRUE),
                        legacy    |-> LegacyShouldExclude(m_legacy, name, isdir)]
        /\ UNCHANGED <<m_config, m_legacy>>
        /\ UNCHANGED rvars

LegacyNext == CallBothMatchers

SpecLegacy == LegacyInit /\ [][LegacyNext]_vars

-----------------------------------------------------------------------------
(* C1, C8, C10: the matchers *)

\* name ends with suffix, said without EndsWith: some split of name has
\* suffix as its right part
HasSuffix(name, suffix) ==
    \E k \in 0..Len(name) : SubSeq(name, k + 1, Len(name)) = suffix

\* one pattern against one name, as the specification words it
PatternMatches(name, pattern) ==
    IF Len(pattern) >= 1 /\ pattern[1] = "*"
    THEN HasSuffix(name, SubSeq(pattern, 2, Len(pattern)))
    ELSE name = pattern

AnyPatternMatches(name, patterns) ==
    \E i \in 1..Len(patterns) : PatternMatches(name, patterns[i])

\* C1: whatever the configuration and the path (directory or file), a path
\* excluded in structure mode (content_only=False) is excluded in content
\* mode (content_only=True) too.
C1_Monotone ==
    m_called => (m_result.structure => m_result.content)

C1_Witness ==
    /\ m_called
    /\ ~m_path.isdir
    /\ m_result.structure
    /\ m_result.content
    /\ m_config.content_excludes.files = <<>>

\* C8: a file is excluded in a mode exactly when some pattern of the file
\* lists that apply in that mode matches its base name, where a pattern
\* starting with '*' matches by the suffix after the '*' and any other
\* pattern matches by equality.
C8_FilePatterns ==
    (m_called /\ ~m_path.isdir) =>
        /\ m_result.structure
             = AnyPatternMatches(m_path.name, m_config.full_excludes.files)
        /\ m_result.content
             = (\/ AnyPatternMatches(m_path.name, m_config.full_excludes.files)
                \/ AnyPatternMatches(m_path.name, m_config.content_excludes.files))

C8_Witness ==
    /\ m_called
    /\ ~m_path.isdir
    /\ m_path.name = <<"a", ".", "a">>
    /\ m_config.full_excludes.files = <<<<"a", "a">>, <<"*", ".">>>>
    /\ m_config.content_excludes.files
         = <<<<"*", "a", ".">>, <<"a", ".", "a">>, <<"*", ".", "a">>>>
    /\ ~m_result.structure
    /\ m_result.content

\* an extension of the form '.' followed by characters other than '.'
PlainExtension(e) ==
    /\ Len(e) >= 1
    /\ e[1] = "."
    /\ \A i \in 2..Len(e) : e[i] # "."

\* a base name with no '.', or with a character other than '.' somewhere
\* before its last '.'
PlainName(name) ==
    \/ \A i \in 1..Len(name) : name[i] # "."
    \/ \E i, j \in 1..Len(name) :
          /\ i < j
          /\ name[i] # "."
          /\ name[j] = "."
          /\ \A k \in (j + 1)..Len(name) : name[k] # "."

\* C10 as claimed: for every single-list configuration and every path, the
\* single-list matcher agrees with the two-tier matcher in both modes.
C10_Generalizes ==
    m_called =>
        /\ m_result.legacy = m_result.structure
        /\ m_result.legacy = m_result.content

\* C10 amended: the matchers agree on every directory, and on every file
\* whose name is plain when every configured extension is plain.
C10_GeneralizesPlain ==
    (/\ m_called
     /\ \/ m_path.isdir
        \/ /\ PlainName(m_path.name)
           /\ \A i \in 1..Len(m_legacy.excluded_extensions) :
                 PlainExtension(m_legacy.excluded_extensions[i]))
    => /\ m_result.legacy = m_result.structure
       /\ m_result.legacy = m_result.content

C10_Witness ==
    /\ m_called
    /\ ~m_path.isdir
    /\ m_path.name = <<"a", ".", "a">>
    /\ m_legacy.excluded_extensions = <<<<".", "A">>, <<".", "a">>>>
    /\ m_legacy.excluded_files = <<>>
    /\ m_result.legacy
    /\ m_result.structure
    /\ m_result.content

-----------------------------------------------------------------------------
(* C2, C3: what the two sections of the document hold *)

\* the components of path below the project directory all satisfy Keep, and
\* every directory on the way down, the project directory included, could
\* be listed
ReachedBelow(folder, path, Keep(_)) ==
    /\ Len(path) > Len(folder)
    /\ IsPrefix(folder, path)
    /\ \A k \in (Len(folder) + 1)..Len(path) : Keep(SubSeq(path, 1, k))
    /\ \A k \in Len(folder)..(Len(path) - 1) :
          /\ IsDir(fs0, SubSeq(path, 1, k))
          /\ fs0[SubSeq(path, 1, k)].list = "ok"

KeptInStructure(path) ==
    ~ShouldExclude(config, Basename(path), IsDir(fs0, path), FALSE)

KeptInContent(path) ==
    ~ShouldExclude(config, Basename(path), IsDir(fs0, path), TRUE)

\* the entries of an element list: the path each element stands at, by its
\* nesting, and its tag
RECURSIVE Entries(_, _)
Entries(elems, prefix) ==
    UNION { {[path |-> prefix \o <<elems[i].name>>, tag |-> elems[i].tag]}
              \cup Entries(elems[i].children, prefix \o <<elems[i].name>>) :
            i \in 1..Len(elems) }

\* at every level the names ascend strictly, and a file element carries its
\* path from the project directory
RECURSIVE WellOrdered(_, _)
WellOrdered(elems, prefix) ==
    /\ \A i \in 1..(Len(elems) - 1) : LexLess(elems[i].name, elems[i + 1].name)
    /\ \A i \in 1..Len(elems) :
          /\ elems[i].tag = "file" =>
                /\ elems[i].path = prefix \o <<elems[i].name>>
                /\ elems[i].children = <<>>
          /\ WellOrdered(elems[i].children, prefix \o <<elems[i].name>>)

\* C2: once the structure pass has returned, the structure section holds
\* exactly the entries of the tree that are not excluded in structure mode
\* and lie below directories that are themselves kept and listable (a dir
\* element for a directory, a file element for anything else), nested as in
\* the tree, each level in ascending order of the names.
C2_StructureExact ==
    pc \in {"content", "populate", "write", "done"} =>
        /\ Entries(structure, <<>>)
             = { [path |-> RelPath(q, folder_path),
                  tag  |-> IF IsDir(fs0, q) THEN "dir" ELSE "file"] :
                 q \in { r \in DOMAIN fs0 :
                           ReachedBelow(folder_path, r, KeptInStructure) } }
        /\ WellOrdered(structure, <<>>)

C2_Witness ==
    /\ pc = "done"
    /\ folder_path = P
    /\ config = DefaultConfig
    /\ Exists(fs0, P \o <<ENV, AC>>)
    /\ Exists(fs0, P \o <<LIB, ADB>>)
    /\ Exists(fs0, P \o <<LIB, MEDIA, BC>>)
    /\ Exists(fs0, P \o <<AC>>)
    /\ Len(structure) = 2
    /\ structure[1].name = LIB
    /\ Len(structure[1].children) = 2
    /\ structure[2].name = AC

\* C3: once the content pass has returned, the contents section is a flat
\* list of file elements, one for each regular file that is not excluded in
\* content mode and lies below directories that are kept in content mode
\* and listable, whatever its depth.
C3_ContentsExact ==
    pc \in {"populate", "write", "done"} =>
        /\ \A i \in 1..Len(contents) :
              /\ contents[i].tag = "file"
              /\ contents[i].children = <<>>
              /\ contents[i].name = Basename(contents[i].path)
        /\ {contents[i].path : i \in 1..Len(contents)}
             = { RelPath(q, folder_path) :
                 q \in { r \in DOMAIN fs0 :
                           /\ IsFile(fs0, r)
                           /\ ReachedBelow(folder_path, r, KeptInContent) } }
        /\ \A i, j \in 1..Len(contents) :
              contents[i].path = contents[j].path => i = j

C3_Witness ==
    /\ pc = "done"
    /\ folder_path = P
    /\ Exists(fs0, P \o <<LIB, MEDIA, BC>>)
    /\ Exists(fs0, P \o <<LIB, ADB>>)
    /\ Exists(fs0, P \o <<ENV, AC>>)
    /\ Len(contents) = 3
    /\ contents[2].path = <<LIB, MEDIA, BC>>
    /\ \E i \in 1..Len(structure) : structure[i].tag = "dir"

-----------------------------------------------------------------------------
(* C4, C5, C6: file texts, read failures, what aborts a run *)

\* the text a parser recovers from the body of a content element: CDATA
\* sections end at the first ']]>', character data outside them may hold
\* neither markup nor ']]>'
RECURSIVE ParseContent(_)
ParseContent(s) ==
    IF s = <<>> THEN [ok |-> TRUE, text |-> <<>>]
    ELSE IF IsPrefix(CdataOpen, s)
    THEN LET body == SubSeq(s, Len(CdataOpen) + 1, Len(s))
             ends == {i \in 1..Len(body) :
                        i + 2 <= Len(body) /\ SubSeq(body, i, i + 2) = CdataEnd}
         IN IF ends = {} THEN [ok |-> FALSE, text |-> <<>>]
            ELSE LET e    == CHOOSE i \in ends : \A j \in ends : i <= j
                     rest == ParseContent(SubSeq(body, e + 3, Len(body)))
                 IN [ok |-> rest.ok, text |-> SubSeq(body, 1, e - 1) \o rest.text]
    ELSE IF Head(s) \in {"<", Amp} \/ IsPrefix(CdataEnd, s)
    THEN [ok |-> FALSE, text |-> <<>>]
    ELSE LET rest == ParseContent(Tail(s))
         IN [ok |-> rest.ok, text |-> <<Head(s)>> \o rest.text]

\* C4: when a file read in the content pass holds ']]>', the run is not
\* left by the serializer's ValueError, and once it has returned, the body
\* of that file's content element parses and gives back the file's text.
C4_TerminatorCollision ==
    \A i \in 1..Len(reads) :
        (reads[i].err = "none" /\ Contains(reads[i].text, CdataEnd)) =>
            /\ raised # "ValueError"
            /\ pc = "done" =>
                  LET parsed == ParseContent(CdataOpen \o cdata[i] \o CdataEnd)
                  IN parsed.ok /\ parsed.text = reads[i].text

\* C5: a content element whose file could not be opened or read holds
\* 'Error reading file: ' and the error's text; every other element holds
\* its file's text; no exception leaves the loop over the content elements,
\* which ends with every listed file populated.
C5_ReadFailurePlaceholder ==
    /\ Len(reads) = Len(cdata)
    /\ \A i \in 1..Len(reads) :
          IF reads[i].err # "none"
          THEN /\ Len(cdata[i]) >= 2
               /\ cdata[i][1] = "Error reading file: "
               /\ \/ cdata[i][2] = reads[i].err
                  \/ reads[i].err = "UnicodeDecodeError"
          ELSE Contains(reads[i].text, CdataEnd) \/ cdata[i] = reads[i].text
    /\ pc = "raised" => (contents = <<>> \/ Len(cdata) = Len(contents))
    /\ pc \in {"write", "done"} => Len(cdata) = Len(contents)

C5_Witness ==
    /\ pc = "done"
    /\ \E i, j \in 1..Len(reads) :
          /\ i < j
          /\ reads[i].err = "FileNotFoundError"
          /\ reads[j].err = "none"
          /\ cdata[j] = TextHi
    /\ \E i \in 1..Len(reads) : reads[i].err = "UnicodeDecodeError"

\* C6: a run raises only when the project directory cannot be listed or
\* the output file cannot be opened for writing.
C6_NoAbort ==
    pc = "raised" =>
        \/ ListDir(fs0, folder_path).err # "none"
        \/ OpenWrite(fs, output_file) # "none"

-----------------------------------------------------------------------------
(* C7, C9: the configuration across runs, the output path *)

\* C7: self.config stays what the constructor resolved, so a run on a
\* project without analyzer_config.json works with that configuration.
C7_ConfigImmutable ==
    /\ config = config0
    /\ (pc # "idle" /\ ~Exists(fs0, folder_path \o <<ConfigFileName>>)) =>
          config = config0

\* the returned path holds the document, and no other path was written
WrittenExactlyAt(path) ==
    /\ IsFile(fs, path)
    /\ fs[path].text = Render([cdata |-> cdata])
    /\ \A p \in DOMAIN fs : p # path => (Exists(fs0, p) /\ fs[p] = fs0[p])

\* C9 as claimed: the run returns the caller's output_file, else
\* <absolute root>/project_structure.xml, and the document is there.
C9_ReturnsDefaultPath ==
    pc = "done" =>
        /\ returned = IF output_arg.given THEN output_arg.path
                      ELSE folder_path \o <<DefaultOutputName>>
        /\ WrittenExactlyAt(returned)

\* C9 amended: the run returns the caller's output_file, else the absolute
\* project directory joined with the configured default_output_name, and
\* the document is written to exactly that path.
C9_ReturnsConfiguredPath ==
    pc = "done" =>
        /\ returned = IF output_arg.given THEN output_arg.path
                      ELSE folder_path \o <<config.default_output_name>>
        /\ \A i \in 1..Len(folder_path) :
              folder_path[i] \notin {<<".">>, <<".", ".">>}
        /\ WrittenExactlyAt(returned)

C9_Witness ==
    /\ pc = "done"
    /\ ~output_arg.given
    /\ folder_path = P \o <<LIB>>
    /\ config.default_output_name = OC
    /\ returned = P \o <<LIB, OC>>
    /\ runs = 2

-----------------------------------------------------------------------------
(* C11: the contents section against the structure section *)

\* the paths of the file elements met on a depth-first walk of an element
\* list that takes the elements of every level in ascending order of name
RECURSIVE SortedWalk(_)
SortedWalk(elems) ==
    IF elems = <<>> THEN <<>>
    ELSE LET first == CHOOSE i \in 1..Len(elems) :
                          \A j \in 1..Len(elems) :
                              \/ elems[j].name = elems[i].name
                              \/ LexLess(elems[i].name, elems[j].name)
             e     == elems[first]
             rest  == [k \in 1..(Len(elems) - 1) |->
                          IF k < first THEN elems[k] ELSE elems[k + 1]]
         IN (IF e.tag = "file" THEN <<e.path>> ELSE SortedWalk(e.children))
              \o SortedWalk(rest)

\* a can be had from b by dropping elements of b
RECURSIVE IsSubsequence(_, _)
IsSubsequence(a, b) ==
    IF a = <<>> THEN TRUE
    ELSE IF b = <<>> THEN FALSE
    ELSE IF Head(a) = Head(b) THEN IsSubsequence(Tail(a), Tail(b))
    ELSE IsSubsequence(a, Tail(b))

ContentPaths == [i \in 1..Len(contents) |-> contents[i].path]

\* the tree the run has walked is as it was when the run was called, the
\* output path aside
TreeUnchanged ==
    \A p \in (DOMAIN fs0 \cup DOMAIN fs) \ {output_file} :
        Exists(fs0, p) /\ Exists(fs, p) /\ fs[p] = fs0[p]

\* C11: once both passes have returned, every file element of the contents
\* section carries the path of a file element of the structure tree, and
\* the contents elements stand in the order in which a depth-first walk of
\* the structure tree, each level by ascending name, meets those files.
C11_ContentsWithinStructure ==
    pc \in {"populate", "write", "done"} =>
        /\ \A i \in 1..Len(contents) : contents[i].tag = "file"
        /\ IsSubsequence(ContentPaths, SortedWalk(structure))

C11_Witness ==
    /\ pc = "done"
    /\ TreeUnchanged
    /\ Len(contents) >= 2
    /\ Len(SortedWalk(structure)) > Len(contents)
    /\ \E i \in 1..Len(contents) : Len(contents[i].path) >= 2
    /\ \E i \in 1..Len(contents) : Len(contents[i].path) = 1

-----------------------------------------------------------------------------
(* C12: when the output file is written *)

\* the file system differs from f at most in what is at path
SameExceptAt(g, f, path) ==
    /\ DOMAIN g \ {path} = DOMAIN f \ {path}
    /\ \A p \in DOMAIN f \ {path} : g[p] = f[p]

\* the step that opens output_file for writing and writes the document:
\* both passes have returned and every content element has been populated
WriteStep ==
    /\ pc = "write"
    /\ pc' = "done"
    /\ Len(cdata) = Len(contents)
    /\ Len(reads) = Len(contents)
    /\ IsFile(fs', output_file)
    /\ SameExceptAt(fs', fs, output_file)

\* a step of the environment: one path disappears, nothing is written
RemovalStep ==
    /\ \E gone \in DOMAIN fs :
          /\ DOMAIN fs' = DOMAIN fs \ {gone}
          /\ \A p \in DOMAIN fs' : fs'[p] = fs[p]
    /\ UNCHANGED <<pc, structure, contents, cdata, reads>>

\* the document of the current run names the output file, in the structure
\* tree or among the contents
OutputListed ==
    /\ IsPrefix(folder_path, output_file)
    /\ Len(output_file) > Len(folder_path)
    /\ LET rel == RelPath(output_file, folder_path) IN
          \/ \E e \in Entries(structure, <<>>) : e.path = rel
          \/ \E i \in 1..Len(contents) : contents[i].path = rel

\* until the write step has been taken, what is at the output path is what
\* was there when the run was called
OutputUntouched ==
    Exists(fs, output_file) =>
        /\ Exists(fs0, output_file)
        /\ fs[output_file] = fs0[output_file]

\* C12: within a run the file system is written by one step only, the one
\* that opens output_file for writing, and that step is taken after the
\* structure pass, the content pass and the read of every content element;
\* so while a run is under way or has raised, the output path holds what it
\* held when the run was called, and the document lists the output file
\* only if it existed under the project directory at that moment.
C12_WrittenLast ==
    /\ [](pc \in {"structure", "content", "populate", "write", "raised"}
            => OutputUntouched)
    /\ [](OutputListed => Exists(fs0, output_file))
    /\ [][fs' # fs => (WriteStep \/ RemovalStep)]_vars

\* the second run on /p lists the output of the first, reads it, and raises
\* at the serializer with that output as the first run wrote it
C12_Witness ==
    /\ pc = "raised"
    /\ raised = "ValueError"
    /\ runs = 2
    /\ output_file = P \o <<OC>>
    /\ OutputListed
    /\ Len(reads) = Len(contents)
    /\ IsFile(fs, output_file)
    /\ Contains(fs[output_file].text, CdataOpen)
    /\ fs[output_file] = fs0[output_file]

====
